---- MODULE Spec2Model ----
(***************************************************************************)
(* A model of src/main.py: EmailCustomizer and main().                     *)
(*                                                                         *)
(* One run of main() is modelled as a state machine whose steps are the    *)
(* statements of __init__, read_csv, process_spreadsheet,                  *)
(* generate_custom_email and save_spreadsheet.  The oracle call            *)
(* (client.chat.completions.create) is the one blocking external call: the *)
(* model splits the loop body there, so that a request in flight is a      *)
(* state of its own.                                                       *)
(*                                                                         *)
(* External collaborators are modelled by their documented behaviour:      *)
(*   - pandas.read_csv: header labels are unique, the index is 0..n-1,     *)
(*     empty fields and the default NA tokens are read as NaN;             *)
(*   - DataFrame.iterrows: yields rows of a snapshot taken when the loop   *)
(*     starts;                                                             *)
(*   - DataFrame.at[i, c] = v: sets one cell; a missing column label is    *)
(*     added with NaN in the other rows, a missing index label is added as *)
(*     a new row (setting with enlargement); a column of another dtype is  *)
(*     upcast (pandas 2.x);                                                *)
(*   - DataFrame.to_csv(index=False): writes the file whole or raises      *)
(*     leaving the file system as it was; NaN and None are written empty;  *)
(*   - pathlib (CPython 3.11): stem, suffix, with_name.                    *)
(* Text is modelled by TLA+ strings, a missing value by NaN or None.       *)
(***************************************************************************)
EXTENDS Integers, Sequences, FiniteSets, TLC

VARIABLES
    pc,            \* position of main() in the code
    fs,            \* the file system: path -> file content
    file_path,     \* self.file_path
    df,            \* self.df
    company_name_column,   \* locals of process_spreadsheet
    description_column,
    output_column,
    iter_rows,     \* the rows iterrows() walks (snapshot of df's values)
    index,         \* the loop's index (a label of df's RangeIndex)
    request,       \* the oracle request in flight, or NoRequest
    raised,        \* the exception that ended the run, or ""
    trace          \* history: what the run has done so far

vars == << pc, fs, file_path, df, company_name_column, description_column,
           output_column, iter_rows, index, request, raised, trace >>

----------------------------------------------------------------------------
(* Bounds of the model.                                                    *)

MaxRows == 3
MaxNameLen == 4

(* Program constants.                                                      *)

MinColumns == 4
NamePosition == 0
DescriptionPosition == 3
OutputPosition == 4
DefaultOutputColumn == "Generated_Email"
UpdatedSuffix == "_updated"
ErrorPrefix == "Error generating email: "
MainFileName == "spreadsheet.csv"

(* Missing values: NaN is what read_csv and enlargement produce, None is   *)
(* what the oracle's message content may be.                               *)
NaN == "NaN"
None == "None"

IsNa(v) == v \in {NaN, None}

----------------------------------------------------------------------------
(* pathlib: a path is its parent directory and its final component.        *)

Path(parent, name) == [parent |-> parent, name |-> name]

RECURSIVE RFind(_, _, _)
(* str.rfind from position i down: the last position (1-based) <= i       *)
(* holding ch, 0 if none.                                                  *)
RFind(s, ch, i) ==
    IF i = 0 THEN 0
    ELSE IF SubSeq(s, i, i) = ch THEN i
    ELSE RFind(s, ch, i - 1)

RECURSIVE Find(_, _, _)
Find(s, ch, i) ==
    IF i > Len(s) THEN 0
    ELSE IF SubSeq(s, i, i) = ch THEN i
    ELSE Find(s, ch, i + 1)

(* The position of the dot that starts the suffix, 0 when the name has no  *)
(* suffix: the last dot, unless it is the first or the last character.     *)
SuffixDotFirst(name) ==
    LET i == Find(name, ".", 1)
    IN  IF 1 < i /\ i < Len(name) THEN i ELSE 0

SuffixDot(name) ==
    LET i == RFind(name, ".", Len(name))
    IN  IF 1 < i /\ i < Len(name) THEN i ELSE 0

Suffix(name) ==
    IF SuffixDot(name) = 0 THEN ""
    ELSE SubSeq(name, SuffixDot(name), Len(name))

Stem(name) ==
    IF SuffixDot(name) = 0 THEN name
    ELSE SubSeq(name, 1, SuffixDot(name) - 1)

WithName(p, name) == Path(p.parent, name)

(* save_spreadsheet, line 111.                                             *)
OutputPath(p) == WithName(p, Stem(p.name) \o UpdatedSuffix \o Suffix(p.name))

----------------------------------------------------------------------------
(* Files and tables.                                                       *)

(* A file is well-formed CSV (a header and rows of raw text fields) or     *)
(* something read_csv cannot parse.                                        *)
CsvFile(header, rows) == [ok |-> TRUE, header |-> header, rows |-> rows]
Malformed == [ok |-> FALSE, header |-> << >>, rows |-> << >>]

NoFiles == [p \in {} |-> Malformed]

Exists(files, p) == p \in DOMAIN files

WriteFile(files, p, content) ==
    [q \in DOMAIN files \cup {p} |-> IF q = p THEN content ELSE files[q]]

(* self.df: None, or a frame of column labels and rows of cell values, the *)
(* row at position i carrying index label i - 1.                           *)
NoneDf == [isNone |-> TRUE, columns |-> << >>, data |-> << >>]
Frame(columns, data) == [isNone |-> FALSE, columns |-> columns, data |-> data]

(* read_csv's default NA tokens, among the fields the model uses.          *)
NaTokens == {"", "NA", "NaN"}

ParseField(text) == IF text \in NaTokens THEN NaN ELSE text

FormatCell(v) == IF IsNa(v) THEN "" ELSE v

ParseCsv(file) ==
    Frame(file.header,
          [i \in 1..Len(file.rows) |->
              [k \in 1..Len(file.rows[i]) |-> ParseField(file.rows[i][k])]])

ToCsv(frame) ==
    CsvFile(frame.columns,
            [i \in 1..Len(frame.data) |->
                [k \in 1..Len(frame.data[i]) |-> FormatCell(frame.data[i][k])]])

HasColumn(columns, label) == \E k \in 1..Len(columns) : columns[k] = label

ColumnPos(columns, label) == CHOOSE k \in 1..Len(columns) : columns[k] = label

(* row[label] on a row of iterrows.                                        *)
Cell(columns, row, label) ==
    IF HasColumn(columns, label) THEN row[ColumnPos(columns, label)] ELSE NaN

(* frame.at[i, label] = v.  A label that is no column is added as a new   *)
(* column (NaN in the other rows); an index label that is no row is added  *)
(* as a new last row (NaN in the other columns).                          *)
AtSet(frame, i, label, v) ==
    LET known   == HasColumn(frame.columns, label)
        columns == IF known THEN frame.columns ELSE Append(frame.columns, label)
        wide    == [r \in 1..Len(frame.data) |->
                       IF known THEN frame.data[r] ELSE Append(frame.data[r], NaN)]
        isRow   == i + 1 \in 1..Len(wide)
        data    == IF isRow THEN wide
                   ELSE Append(wide, [k \in 1..Len(columns) |-> NaN])
        r       == IF isRow THEN i + 1 ELSE Len(data)
    IN  Frame(columns, [data EXCEPT ![r][ColumnPos(columns, label)] = v])

----------------------------------------------------------------------------
(* The inputs of a run.                                                    *)

GenericEmail == "Dear Hiring Team, ..."

BaseLabels == << "Company", "Website", "Contact", "Description", "Email" >>

ColumnCounts == (MinColumns - 1)..(OutputPosition + 1)

(* Headers as read_csv delivers them: unique labels, one of which may be   *)
(* the default output label.  Where that label sits matters when it is the *)
(* output label (no fifth column): then it may be on any column.  With a   *)
(* fifth column it is tried on the name column and on the fifth.           *)
DefaultLabelPositions(n) ==
    IF n > OutputPosition THEN {NamePosition + 1, OutputPosition + 1} ELSE 1..n

Headers(n) ==
    LET base == SubSeq(BaseLabels, 1, n)
    IN  {base} \cup
        {[base EXCEPT ![k] = DefaultOutputColumn] : k \in DefaultLabelPositions(n)}

(* The fields of a row: a company name, a description and an old draft,    *)
(* each present or missing (an empty field, or the NA token).              *)
RawRows(n) ==
    {SubSeq(<< name, "acme.example", "Wile E.", description, draft >>, 1, n) :
        name \in {"NA", "Acme"},
        description \in {"", "Builds rockets"},
        draft \in {"", "old draft"}}

TablesOf(n) ==
    {CsvFile(h, rows) : h \in Headers(n),
                        rows \in UNION {[1..m -> RawRows(n)] : m \in 0..MaxRows}}

InputFiles == {Malformed} \cup UNION {TablesOf(n) : n \in ColumnCounts}

(* What the oracle can answer: a message whose content is text or None, or *)
(* an exception with a cause.                                              *)
Contents == {"Dear Acme team, ...", None}
Causes == {"Connection error.", "Incorrect API key provided"}

NoRequest == [row |-> -1, template |-> "", company_name |-> "", company_description |-> ""]

Prompt(i, template, name, description) ==
    [row |-> i, template |-> template, company_name |-> name,
     company_description |-> description]

Event(op, row, value) == [op |-> op, row |-> row, value |-> value]

----------------------------------------------------------------------------
(* The run.                                                                *)

Init ==
    /\ pc = "start"
    /\ file_path = Path("", MainFileName)
    /\ fs \in {NoFiles} \cup {WriteFile(NoFiles, file_path, f) : f \in InputFiles}
    /\ df = NoneDf
    /\ company_name_column = ""
    /\ description_column = ""
    /\ output_column = ""
    /\ iter_rows = << >>
    /\ index = 0
    /\ request = NoRequest
    /\ raised = ""
    /\ trace = << >>

RaiseSwallowed(exception) ==
    /\ pc' = pc
    /\ raised' = exception

Raise(exception) ==
    /\ pc' = "failed"
    /\ raised' = exception

(* main, line 135; __init__, lines 26-32.                                  *)
Construct ==
    /\ pc = "start"
    /\ IF Exists(fs, file_path)
       THEN pc' = "constructed" /\ raised' = raised
       ELSE Raise("FileNotFoundError")
    /\ UNCHANGED << fs, file_path, df, company_name_column, description_column,
                    output_column, iter_rows, index, request, trace >>

(* process_spreadsheet, lines 78-79; read_csv, lines 34-41.                *)
ReadCsv ==
    /\ pc = "constructed"
    /\ df = NoneDf
    /\ fs[file_path].ok
    /\ df' = ParseCsv(fs[file_path])
    /\ pc' = "loaded"
    /\ UNCHANGED << fs, file_path, company_name_column, description_column,
                    output_column, iter_rows, index, request, raised, trace >>

ReadCsvFail ==
    /\ pc = "constructed"
    /\ df = NoneDf
    /\ ~ fs[file_path].ok
    /\ Raise("ParserError")
    /\ UNCHANGED << fs, file_path, df, company_name_column, description_column,
                    output_column, iter_rows, index, request, trace >>

(* Line 82.                                                                *)
TooFewColumnsOffByOne(columns) == Len(columns) < MinColumns - 1

TooFewColumns(columns) == Len(columns) < MinColumns

(* columns[k], k counted from 0: defined when k is a position.             *)
InRange(columns, k) == k < Len(columns)
Label(columns, k) == columns[k + 1]

(* Line 87.                                                                *)
OutputColumnDefault(columns) == DefaultOutputColumn

OutputColumn(columns) ==
    IF Len(columns) > OutputPosition THEN Label(columns, OutputPosition)
    ELSE DefaultOutputColumn

(* Lines 82-83.                                                            *)
SchemaFail ==
    /\ pc = "loaded"
    /\ TooFewColumns(df.columns)
    /\ Raise("ValueError")
    /\ UNCHANGED << fs, file_path, df, company_name_column, description_column,
                    output_column, iter_rows, index, request, trace >>

(* Lines 85-90: the three column labels, then iterrows() starts.           *)
ResolveColumns ==
    /\ pc = "loaded"
    /\ ~ TooFewColumns(df.columns)
    /\ IF InRange(df.columns, NamePosition) /\ InRange(df.columns, DescriptionPosition)
       THEN /\ company_name_column' = Label(df.columns, NamePosition)
            /\ description_column' = Label(df.columns, DescriptionPosition)
            /\ output_column' = OutputColumn(df.columns)
            /\ iter_rows' = df.data
            /\ index' = 0
            /\ pc' = "loop"
            /\ raised' = raised
       ELSE /\ Raise("IndexError")
            /\ UNCHANGED << company_name_column, description_column, output_column,
                            iter_rows, index >>
    /\ UNCHANGED << fs, file_path, df, request, trace >>

(* Line 93.                                                                *)
IncompleteDescriptionOnly(company_name, company_description) ==
    IsNa(company_description)

Incomplete(company_name, company_description) ==
    IsNa(company_description) \/ IsNa(company_name)

(* iterrows(): the loop ends after the last row, else moves to the next.   *)
ExhaustedEarly(i, rows) == i >= Len(rows) - 1

Exhausted(i, rows) == i >= Len(rows)
NextIndex(i) == i + 1

RowName == Cell(df.columns, iter_rows[index + 1], company_name_column)
RowDescription == Cell(df.columns, iter_rows[index + 1], description_column)

(* Lines 90-94: a row with a missing value is passed over.                 *)
SkipRow ==
    /\ pc = "loop"
    /\ ~ Exhausted(index, iter_rows)
    /\ Incomplete(RowName, RowDescription)
    /\ index' = NextIndex(index)
    /\ trace' = Append(trace, Event("skip", index, ""))
    /\ UNCHANGED << pc, fs, file_path, df, company_name_column, description_column,
                    output_column, iter_rows, request, raised >>

(* Lines 90-100 and 45-68: the prompt is built and the oracle is called.   *)
CallOracle ==
    /\ pc = "loop"
    /\ ~ Exhausted(index, iter_rows)
    /\ ~ Incomplete(RowName, RowDescription)
    /\ request' = Prompt(index, GenericEmail, RowName, RowDescription)
    /\ pc' = "calling"
    /\ trace' = Append(trace, Event("call", index, ""))
    /\ UNCHANGED << fs, file_path, df, company_name_column, description_column,
                    output_column, iter_rows, index, raised >>

(* Line 74.                                                                *)
ErrorStringNoCause(cause) == ErrorPrefix

ErrorString(cause) == ErrorPrefix \o cause

(* Line 103.                                                               *)
UpdateOutputNextLabel(frame, i, label, custom_email) ==
    AtSet(frame, i + 1, label, custom_email)

UpdateOutputFirstRow(frame, i, label, custom_email) ==
    AtSet(frame, 0, label, custom_email)

UpdateOutput(frame, i, label, custom_email) ==
    AtSet(frame, i, label, custom_email)

(* Line 103, then the loop moves on.                                       *)
WriteBack(custom_email, logged) ==
    /\ df' = UpdateOutput(df, index, output_column, custom_email)
    /\ index' = NextIndex(index)
    /\ request' = NoRequest
    /\ pc' = "loop"
    /\ trace' = trace \o logged \o << Event("write", index, custom_email) >>
    /\ UNCHANGED << fs, file_path, company_name_column, description_column,
                    output_column, iter_rows, raised >>

(* Line 70: the oracle answers.                                            *)
OracleReturn ==
    /\ pc = "calling"
    /\ \E content \in Contents : WriteBack(content, << >>)

(* Lines 72-74: the oracle call raises, the cause is logged and turned     *)
(* into text.                                                              *)
OracleRaise ==
    /\ pc = "calling"
    /\ \E cause \in Causes :
          WriteBack(ErrorString(cause), << Event("error", index, cause) >>)

(* The loop of line 90 is over.                                            *)
LoopEnd ==
    /\ pc = "loop"
    /\ Exhausted(index, iter_rows)
    /\ pc' = "processed"
    /\ UNCHANGED << fs, file_path, df, company_name_column, description_column,
                    output_column, iter_rows, index, request, raised, trace >>

(* Lines 106 and 108-113.                                                  *)
SaveSpreadsheet ==
    /\ pc = "processed"
    /\ fs' = WriteFile(fs, OutputPath(file_path), ToCsv(df))
    /\ pc' = "saved"
    /\ trace' = Append(trace, Event("save", -1, ""))
    /\ UNCHANGED << file_path, df, company_name_column, description_column,
                    output_column, iter_rows, index, request, raised >>

(* Lines 106 and 108-116: to_csv raises.                                   *)
SaveFail ==
    /\ pc = "processed"
    /\ Raise("OSError")
    /\ trace' = Append(trace, Event("save", -1, ""))
    /\ UNCHANGED << fs, file_path, df, company_name_column, description_column,
                    output_column, iter_rows, index, request >>

Next ==
    \/ Construct
    \/ ReadCsv
    \/ ReadCsvFail
    \/ SchemaFail
    \/ ResolveColumns
    \/ SkipRow
    \/ CallOracle
    \/ OracleReturn
    \/ OracleRaise
    \/ LoopEnd
    \/ SaveSpreadsheet
    \/ SaveFail

Spec == Init /\ [][Next]_vars

----------------------------------------------------------------------------
(* Runs over many input paths, each on one of a few files.                 *)

PathChars == {"a", "."}

RECURSIVE Strings(_)
Strings(n) ==
    IF n = 0 THEN {""}
    ELSE LET shorter == Strings(n - 1)
         IN  shorter \cup {s \o c : s \in shorter, c \in PathChars}

(* Names a file can have: "." and ".." name directories.                   *)
FileNames == Strings(MaxNameLen) \ {"", ".", ".."}

Parents == {"", "leads"}

PathFiles ==
    { Malformed,
      CsvFile(SubSeq(BaseLabels, 1, MinColumns - 1), << >>),
      CsvFile(SubSeq(BaseLabels, 1, MinColumns),
              << << "Acme", "acme.example", "Wile E.", "" >>,
                 << "Acme", "acme.example", "Wile E.", "Builds rockets" >> >>) }

InitPath ==
    /\ pc = "start"
    /\ file_path \in {Path(d, n) : d \in Parents, n \in FileNames}
    /\ fs \in {NoFiles} \cup {WriteFile(NoFiles, file_path, f) : f \in PathFiles}
    /\ df = NoneDf
    /\ company_name_column = ""
    /\ description_column = ""
    /\ output_column = ""
    /\ iter_rows = << >>
    /\ index = 0
    /\ request = NoRequest
    /\ raised = ""
    /\ trace = << >>

SpecPath == InitPath /\ [][Next]_vars

----------------------------------------------------------------------------
(* Vocabulary of the properties, stated from the input file and the trace. *)

HaveTable == Exists(fs, file_path) /\ fs[file_path].ok

(* The table as loaded.                                                    *)
Loaded == ParseCsv(fs[file_path])
LoadedColumns == fs[file_path].header
NumColumns == Len(LoadedColumns)
NumRows == Len(fs[file_path].rows)
Rows == 0..(NumRows - 1)

WideEnough == HaveTable /\ NumColumns >= 4

(* The loaded value of row i in the column at position k (from 1).          *)
LoadedCell(i, k) == ParseField(fs[file_path].rows[i + 1][k])

Missing(v) == v = NaN \/ v = None

(* A complete row: a name in the first column, a description in the fourth. *)
Complete(i) == ~ Missing(LoadedCell(i, 1)) /\ ~ Missing(LoadedCell(i, 4))

(* The output label: the fifth column's, else the default one.             *)
OutLabel == IF NumColumns > 4 THEN LoadedColumns[5] ELSE "Generated_Email"

(* What row i held under the output label when loaded: NaN if the label is *)
(* no column of the loaded table.                                          *)
LoadedOut(i) ==
    IF \E k \in 1..NumColumns : LoadedColumns[k] = OutLabel
    THEN LoadedCell(i, CHOOSE k \in 1..NumColumns : LoadedColumns[k] = OutLabel)
    ELSE NaN

(* What row i holds under the output label now.                            *)
CurrentOut(i) ==
    IF \E k \in 1..Len(df.columns) : df.columns[k] = OutLabel
    THEN df.data[i + 1][CHOOSE k \in 1..Len(df.columns) : df.columns[k] = OutLabel]
    ELSE NaN

Events(op) == {k \in 1..Len(trace) : trace[k].op = op}
EventsOf(op, i) == {k \in Events(op) : trace[k].row = i}

Ended == pc \in {"saved", "failed"}
AtSave == pc \in {"processed", "saved"} \/ (pc = "failed" /\ raised = "OSError")

----------------------------------------------------------------------------
(* C1, as stated: a row whose name or description is missing is never sent *)
(* to the generator, and when the table is saved its output cell is        *)
(* absent or unset, whether the output column is new or the fifth column.  *)
C1_AsStated ==
    WideEnough =>
        \A i \in Rows : ~ Complete(i) =>
            /\ EventsOf("call", i) = {}
            /\ AtSave => Missing(CurrentOut(i))

(* C1, amended: a row whose name or description is missing is never sent   *)
(* to the generator and is never written, so when the table is saved its   *)
(* output cell holds what it held when loaded: nothing when the output     *)
(* column is new, the loaded value when the column was in the file.        *)
C1_SkippedRowUntouched ==
    WideEnough =>
        \A i \in Rows : ~ Complete(i) =>
            /\ EventsOf("call", i) = {}
            /\ EventsOf("write", i) = {}
            /\ AtSave =>
                  /\ CurrentOut(i) = LoadedOut(i)
                  /\ (\A k \in 1..NumColumns : LoadedColumns[k] # OutLabel)
                        => Missing(CurrentOut(i))

C1_Witness ==
    /\ pc = "saved"
    /\ WideEnough
    /\ \E i, j \in Rows :
          /\ ~ Complete(i) /\ ~ Missing(CurrentOut(i))
          /\ Complete(j) /\ EventsOf("write", j) # {}

----------------------------------------------------------------------------
(* C2: when the oracle call of a complete row fails, the generator returns *)
(* "Error generating email: " followed by the cause, that string is        *)
(* written into the row's output cell, no exception escapes because of it, *)
(* every later row is still handled and the run goes on to the save step.  *)
C2_OracleFailureRecovered ==
    /\ \A k \in Events("error") :
          LET i == trace[k].row
              text == "Error generating email: " \o trace[k].value
          IN  /\ Complete(i)
              /\ k < Len(trace)
              /\ trace[k + 1] = Event("write", i, text)
              /\ CurrentOut(i) = text
              /\ raised \in {"", "OSError"}
              /\ Ended =>
                    /\ Events("save") # {}
                    /\ \A j \in Rows : j > i =>
                          EventsOf("skip", j) \cup EventsOf("write", j) # {}
    /\ ~ Ended => ENABLED Next

C2_Witness ==
    /\ pc = "saved"
    /\ \E k \in Events("error") : \E m \in Events("write") :
          /\ trace[m].row > trace[k].row
          /\ trace[m].value \in Contents

----------------------------------------------------------------------------
(* C3: a loaded table with fewer than 4 columns makes process_spreadsheet  *)
(* fail with the schema error before any row is examined: no oracle call,  *)
(* no changed cell, no call of save_spreadsheet, no output file.           *)
C3_TooFewColumnsFailsFirst ==
    HaveTable /\ NumColumns < 4 =>
        /\ pc \in {"start", "constructed", "loaded", "failed"}
        /\ pc = "failed" => raised = "ValueError"
        /\ pc = "loaded" => ENABLED SchemaFail /\ ~ ENABLED ResolveColumns
        /\ trace = << >>
        /\ request = NoRequest
        /\ df \in {NoneDf, Loaded}
        /\ DOMAIN fs = {file_path}

C3_Witness ==
    /\ HaveTable /\ NumColumns < 4 /\ NumRows > 0
    /\ pc = "failed"
    /\ raised = "ValueError"

----------------------------------------------------------------------------
Phase(p) ==
    CASE p \in {"start", "constructed"} -> 0
      [] p = "loaded" -> 1
      [] p \in {"loop", "calling"} -> 2
      [] p = "processed" -> 3
      [] p = "saved" -> 4
      [] OTHER -> 5

(* C4: the run moves only forward through Unloaded, Loaded,                *)
(* ColumnsResolved, RowsProcessed, Saved; a failure ends the run for good  *)
(* without reaching Saved; the output file is written by no step but the   *)
(* one that reaches Saved.                                                 *)
C4_ForwardOnly ==
    [][ /\ Phase(pc') >= Phase(pc)
        /\ Phase(pc') <= Phase(pc) + 1 \/ pc' = "failed"
        /\ pc \in {"saved", "failed"} => pc' = pc
        /\ raised' # raised => pc' = "failed" /\ pc # "saved"
        /\ raised' # "" => pc' = "failed"
        /\ pc' = "failed" => raised' # ""
        /\ fs' # fs => pc = "processed" /\ pc' = "saved" ]_vars

C4_Witness ==
    /\ pc = "failed"
    /\ raised = "OSError"
    /\ Events("write") # {}
    /\ DOMAIN fs = {file_path}

----------------------------------------------------------------------------
(* C5: the table handed to save_spreadsheet, and the file written from it, *)
(* has as many rows as the loaded table, in the same order: row i of the   *)
(* output is row i of the input in every column but the output column.     *)
C5_RowsKept ==
    WideEnough /\ AtSave =>
        /\ Len(df.data) = NumRows
        /\ \A i \in Rows : \A k \in 1..NumColumns :
              LoadedColumns[k] # OutLabel => df.data[i + 1][k] = LoadedCell(i, k)
        /\ pc = "saved" =>
              \E out \in DOMAIN fs \ {file_path} :
                 /\ Len(fs[out].rows) = NumRows
                 /\ \A i \in Rows : \A k \in 1..NumColumns :
                       LoadedColumns[k] # OutLabel =>
                          ParseField(fs[out].rows[i + 1][k]) = LoadedCell(i, k)

C5_Witness ==
    /\ pc = "saved"
    /\ WideEnough
    /\ Events("skip") # {}
    /\ Events("error") # {}
    /\ \E m \in Events("write") : trace[m].value \in Contents \ {None}
    /\ \E i, j \in Rows : Loaded.data[i + 1] # Loaded.data[j + 1]

----------------------------------------------------------------------------
(* C6: once the column check has passed, save_spreadsheet is invoked       *)
(* exactly once, and only after the last row has been handled; also for a  *)
(* table of no rows and for a table whose rows are all skipped.            *)
C6_SavedOnceAtTheEnd ==
    WideEnough =>
        /\ Cardinality(Events("save")) <= 1
        /\ Events("save") # {} =>
              /\ Events("save") = {Len(trace)}
              /\ Ended
              /\ \A i \in Rows :
                    /\ Complete(i) => Cardinality(EventsOf("write", i)) = 1
                    /\ ~ Complete(i) => Cardinality(EventsOf("skip", i)) = 1
        /\ Ended => Events("save") # {}
        /\ ~ Ended => ENABLED Next

C6_Witness ==
    /\ pc = "saved"
    /\ WideEnough
    /\ NumRows >= 2
    /\ \A i \in Rows : ~ Complete(i)
    /\ Cardinality(Events("save")) = 1

----------------------------------------------------------------------------
(* The extension of a name starts after its first k characters: a dot      *)
(* that is not the name's first character, followed by one or more         *)
(* characters none of which is a dot.                                      *)
ExtensionAt(name, k) ==
    /\ k >= 1
    /\ Len(name) - k >= 2
    /\ SubSeq(name, k + 1, k + 1) = "."
    /\ \A j \in (k + 2)..Len(name) : SubSeq(name, j, j) # "."

UpdatedName(name, out) ==
    IF \E k \in 1..Len(name) : ExtensionAt(name, k)
    THEN \E k \in 1..Len(name) :
            /\ ExtensionAt(name, k)
            /\ out = SubSeq(name, 1, k) \o "_updated" \o SubSeq(name, k + 1, Len(name))
    ELSE out = name \o "_updated"

(* C7: the path save_spreadsheet writes is the input path with "_updated"  *)
(* inserted before the extension, in the same directory and with the same  *)
(* base name; it is never the input path, and the input file is never      *)
(* overwritten.                                                            *)
C7_OutputPathBesideInput ==
    /\ [](pc = "saved" =>
            /\ Cardinality(DOMAIN fs) = 2
            /\ \A out \in DOMAIN fs \ {file_path} :
                  /\ out.parent = file_path.parent
                  /\ UpdatedName(file_path.name, out.name)
                  /\ fs[out] = ToCsv(df))
    /\ [][ /\ file_path' = file_path
           /\ Exists(fs, file_path) =>
                 Exists(fs', file_path) /\ fs'[file_path] = fs[file_path] ]_vars

C7_Witness ==
    /\ pc = "saved"
    /\ \E k \in 2..Len(file_path.name) :
          /\ ExtensionAt(file_path.name, k)
          /\ \E j \in 1..k : SubSeq(file_path.name, j, j) = "."
    /\ Exists(fs, Path(file_path.parent, Stem(file_path.name) \o "_updated"
                                             \o Suffix(file_path.name)))

----------------------------------------------------------------------------
(* C8, as stated: process_spreadsheet changes at most one cell per row,    *)
(* the output cell of a complete row; whatever the header labels, the name *)
(* column, the description column and every column other than the output   *)
(* column are in the saved table what they were in the loaded table.       *)
C8_AsStated ==
    WideEnough /\ AtSave =>
        \A i \in Rows :
            /\ \A k \in 1..NumColumns :
                  k \in {1, 4} \/ LoadedColumns[k] # OutLabel =>
                     df.data[i + 1][k] = LoadedCell(i, k)
            /\ Cardinality({k \in 1..NumColumns :
                               df.data[i + 1][k] # LoadedCell(i, k)}) <= 1
            /\ ~ Complete(i) =>
                  \A k \in 1..NumColumns : df.data[i + 1][k] = LoadedCell(i, k)

----------------------------------------------------------------------------
Considered == Events("skip") \cup Events("call")

(* C9: rows are handled one after the other in file order; the oracle is   *)
(* called exactly once for each complete row and for no other row, in      *)
(* increasing row order; the answer for row i is in row i's output cell    *)
(* before row i + 1 is looked at; at most one call is outstanding.         *)
C9_StrictlySequential ==
    WideEnough =>
        /\ \A k \in Considered :
              trace[k].row = Cardinality({j \in Considered : j < k})
        /\ \A k \in Events("call") :
              /\ Complete(trace[k].row)
              /\ Cardinality(EventsOf("call", trace[k].row)) = 1
              /\ IF k = Len(trace)
                 THEN /\ pc = "calling"
                      /\ request.row = trace[k].row
                      /\ EventsOf("write", trace[k].row) = {}
                 ELSE \E m \in EventsOf("write", trace[k].row) :
                         /\ m \in {k + 1, k + 2}
                         /\ \A j \in (k + 1)..(m - 1) : trace[j].op = "error"
        /\ \A k \in Events("skip") : ~ Complete(trace[k].row)
        /\ \A m \in Events("write") :
              /\ Cardinality(EventsOf("write", trace[m].row)) = 1
              /\ \E k \in EventsOf("call", trace[m].row) : k < m
              /\ CurrentOut(trace[m].row) = trace[m].value
        /\ pc = "calling" <=> request # NoRequest
        /\ pc = "calling" => Len(trace) \in Events("call")
        /\ AtSave => \A i \in Rows :
                        Complete(i) => Cardinality(EventsOf("call", i)) = 1

C9_Witness ==
    /\ pc = "calling"
    /\ WideEnough
    /\ request.row = 2
    /\ Cardinality(Events("call")) = 2
    /\ Cardinality(Events("write")) = 1
    /\ Cardinality(Events("skip")) = 1

----------------------------------------------------------------------------
Resolved == pc \in {"loop", "calling"} \/ AtSave

(* C10: the columns are resolved by position and stay fixed: the name      *)
(* column is column 0, the description column is column 3, the output      *)
(* column is column 4 of a table of more than 4 columns and the label      *)
(* 'Generated_Email' otherwise; a column is added to the table only by     *)
(* the first write of a complete row; a value the output cell of a         *)
(* complete row held is replaced by what the generator returned.           *)
C10_PositionalColumns ==
    WideEnough /\ Resolved =>
        /\ company_name_column = LoadedColumns[1]
        /\ description_column = LoadedColumns[4]
        /\ output_column =
              (IF NumColumns > 4 THEN LoadedColumns[5] ELSE "Generated_Email")
        /\ df.columns =
              (IF /\ NumColumns = 4
                  /\ \A k \in 1..NumColumns : LoadedColumns[k] # "Generated_Email"
                  /\ Events("write") # {}
               THEN Append(LoadedColumns, "Generated_Email")
               ELSE LoadedColumns)
        /\ \A m \in Events("write") :
              df.data[trace[m].row + 1]
                     [CHOOSE k \in 1..Len(df.columns) : df.columns[k] = output_column]
                 = trace[m].value

C10_Witness ==
    /\ pc = "saved"
    /\ WideEnough
    /\ NumColumns > 4
    /\ \E m \in Events("write") :
          /\ ~ Missing(LoadedOut(trace[m].row))
          /\ CurrentOut(trace[m].row) = trace[m].value
          /\ trace[m].value # LoadedOut(trace[m].row)

====
